---- MODULE Spec2Model ----
(***************************************************************************)
(* A model of the Unizo MCP SDK: the core tool set (unizo_core/client.py)  *)
(* and the CrewAI / LangChain / OpenAI projectors built on it.             *)
(*                                                                         *)
(* Python values are tagged records.  A str is either an atomic string    *)
(* ([tag |-> "str", s |-> ...]) or a JSON text, kept as its sequence of    *)
(* lexical tokens ([tag |-> "str", toks |-> ...]); json.loads is a         *)
(* recursive-descent parser over the tokens and json.dumps its printer.    *)
(***************************************************************************)
EXTENDS Integers, Sequences, FiniteSets, TLC

\* ------------------------------------------------------------------ bounds
MaxTools == 2
MaxConnects == 3
MaxCleanups == 2
Tasks == {1, 2}

\* ----------------------------------------------------------- Python values
PyNone == [tag |-> "None"]
PyBool(b) == [tag |-> "bool", b |-> b]
PyInt(n) == [tag |-> "int", n |-> n]
PyStr(s) == [tag |-> "str", s |-> s]
PyText(toks) == [tag |-> "str", toks |-> toks]
PyList(items) == [tag |-> "list", items |-> items]
\* a dict is its items in insertion order, keys unique; keys are atomic strings
PyDict(kv) == [tag |-> "dict", kv |-> kv]
KV(k, v) == [k |-> k, v |-> v]
EmptyDict == PyDict(<<>>)
EmptyList == PyList(<<>>)

IsStr(v) == v.tag = "str"
IsDict(v) == v.tag = "dict"
IsList(v) == v.tag = "list"

\* bool(v): the truth value Python gives a value in `if v` / `x if v else y`
Truthy(v) ==
  CASE v.tag = "None" -> FALSE
    [] v.tag = "bool" -> v.b
    [] v.tag = "int" -> v.n # 0
    [] v.tag = "str" -> IF "toks" \in DOMAIN v THEN Len(v.toks) > 0 ELSE v.s # ""
    [] v.tag = "list" -> Len(v.items) > 0
    [] v.tag = "dict" -> Len(v.kv) > 0
    [] OTHER -> TRUE

DictKeys(d) == {d.kv[i].k : i \in 1..Len(d.kv)}
DictHas(d, k) == k \in DictKeys(d)
\* d.get(k, default)
DictGet(d, k, default) ==
  IF DictHas(d, k)
  THEN d.kv[CHOOSE i \in 1..Len(d.kv) : d.kv[i].k = k].v
  ELSE default
\* d[k] = v: a new key is appended, an existing key keeps its position
DictSet(d, k, v) ==
  IF DictHas(d, k)
  THEN PyDict([i \in 1..Len(d.kv) |-> IF d.kv[i].k = k THEN KV(k, v) ELSE d.kv[i]])
  ELSE PyDict(Append(d.kv, KV(k, v)))
\* x in lst, for a list of atomic strings
ListHasStr(lst, s) == \E i \in 1..Len(lst.items) : lst.items[i] = PyStr(s)

\* ------------------------------------------------------------- JSON tokens
Punct(c) == [t |-> "punct", s |-> c, n |-> 0]
StrTok(s) == [t |-> "str", s |-> s, n |-> 0]
NumTok(n) == [t |-> "num", s |-> "", n |-> n]
Word(w) == [t |-> "word", s |-> w, n |-> 0]
IsPunct(tok, c) == tok.t = "punct" /\ tok.s = c

\* the tokens of a str: a JSON text carries its own, an atomic string is one bare word
TokensOf(v) == IF "toks" \in DOMAIN v THEN v.toks ELSE <<Word(v.s)>>

ParseOk(v, next) == [ok |-> TRUE, v |-> v, next |-> next]
ParseFail == [ok |-> FALSE, v |-> PyNone, next |-> 0]

RECURSIVE ParseValue(_, _)
RECURSIVE ParseItems(_, _, _, _)
RECURSIVE ParseMembers(_, _, _, _)

\* a literal token: a string, a number, or one of null / true / false
ParseLiteral(tok, i) ==
  CASE tok.t = "str" -> ParseOk(PyStr(tok.s), i + 1)
    [] tok.t = "num" -> ParseOk(PyInt(tok.n), i + 1)
    [] tok.t = "word" /\ tok.s = "null" -> ParseOk(PyNone, i + 1)
    [] tok.t = "word" /\ tok.s = "true" -> ParseOk(PyBool(TRUE), i + 1)
    [] tok.t = "word" /\ tok.s = "false" -> ParseOk(PyBool(FALSE), i + 1)
    [] OTHER -> ParseFail

\* one JSON value starting at toks[i]
ParseValue(toks, i) ==
  IF i > Len(toks) THEN ParseFail
  ELSE IF IsPunct(toks[i], "[") THEN ParseItems(toks, i + 1, <<>>, TRUE)
  ELSE IF IsPunct(toks[i], "{") THEN ParseMembers(toks, i + 1, EmptyDict, TRUE)
  ELSE ParseLiteral(toks[i], i)

\* after the item r of an array: a comma and more items, or the closing bracket
ItemsAfter(toks, acc, r) ==
  IF ~r.ok \/ r.next > Len(toks) THEN ParseFail
  ELSE IF IsPunct(toks[r.next], ",")
       THEN ParseItems(toks, r.next + 1, Append(acc, r.v), FALSE)
  ELSE IF IsPunct(toks[r.next], "]")
       THEN ParseOk(PyList(Append(acc, r.v)), r.next + 1)
  ELSE ParseFail

\* the rest of an array: acc holds the items read so far
ParseItems(toks, i, acc, first) ==
  IF i > Len(toks) THEN ParseFail
  ELSE IF first /\ IsPunct(toks[i], "]") THEN ParseOk(PyList(acc), i + 1)
  ELSE ItemsAfter(toks, acc, ParseValue(toks, i))

\* after the member acc of an object: a comma and more members, or the closing brace
MembersAfter(toks, acc, r) ==
  IF r.next > Len(toks) THEN ParseFail
  ELSE IF IsPunct(toks[r.next], ",") THEN ParseMembers(toks, r.next + 1, acc, FALSE)
  ELSE IF IsPunct(toks[r.next], "}") THEN ParseOk(acc, r.next + 1)
  ELSE ParseFail

\* the member key: r: a repeated key keeps its last value
MemberValue(toks, acc, key, r) ==
  IF ~r.ok THEN ParseFail ELSE MembersAfter(toks, DictSet(acc, key, r.v), r)

\* the rest of an object: acc holds the members read so far
ParseMembers(toks, i, acc, first) ==
  IF i > Len(toks) THEN ParseFail
  ELSE IF first /\ IsPunct(toks[i], "}") THEN ParseOk(acc, i + 1)
  ELSE IF toks[i].t # "str" \/ i + 1 > Len(toks) THEN ParseFail
  ELSE IF ~IsPunct(toks[i + 1], ":") THEN ParseFail
  ELSE MemberValue(toks, acc, toks[i].s, ParseValue(toks, i + 2))

\* the whole text must be one value
WholeText(toks, r) ==
  IF r.ok /\ r.next = Len(toks) + 1 THEN [ok |-> TRUE, v |-> r.v]
  ELSE [ok |-> FALSE, v |-> PyNone]

\* json.loads(s): ok with the value, or not ok (json.JSONDecodeError)
json_loads(s) == WholeText(TokensOf(s), ParseValue(TokensOf(s), 1))

RECURSIVE DumpTokens(_)
RECURSIVE DumpItems(_, _)
RECURSIVE DumpMembers(_, _)
DumpItems(items, i) ==
  IF i > Len(items) THEN <<>>
  ELSE (IF i > 1 THEN <<Punct(",")>> ELSE <<>>) \o DumpTokens(items[i]) \o DumpItems(items, i + 1)
DumpMembers(kv, i) ==
  IF i > Len(kv) THEN <<>>
  ELSE (IF i > 1 THEN <<Punct(",")>> ELSE <<>>)
       \o <<StrTok(kv[i].k), Punct(":")>> \o DumpTokens(kv[i].v) \o DumpMembers(kv, i + 1)
DumpTokens(v) ==
  CASE v.tag = "None" -> <<Word("null")>>
    [] v.tag = "bool" -> <<Word(IF v.b THEN "true" ELSE "false")>>
    [] v.tag = "int" -> <<NumTok(v.n)>>
    [] v.tag = "str" -> <<StrTok(v.s)>>
    [] v.tag = "list" -> <<Punct("[")>> \o DumpItems(v.items, 1) \o <<Punct("]")>>
    [] v.tag = "dict" -> <<Punct("{")>> \o DumpMembers(v.kv, 1) \o <<Punct("}")>>
\* json.dumps(v), for values whose strings are atomic
json_dumps(v) == PyText(DumpTokens(v))


\* ------------------------------------------------------------- Action enum
\* the members of Action, in declaration order: member name and value
Action ==
  << [name |-> "LIST_SERVICES", value |-> "list_services"],
     [name |-> "LIST_INTEGRATIONS", value |-> "list_integrations"],
     [name |-> "LIST_ORGANIZATIONS", value |-> "list_organizations"],
     [name |-> "LIST_COLLECTIONS", value |-> "list_collections"],
     [name |-> "CONFIRM_TICKET_CREATION", value |-> "confirm_ticket_creation"],
     [name |-> "CREATE_TICKET", value |-> "create_ticket"],
     [name |-> "LIST_TICKETS", value |-> "list_tickets"],
     [name |-> "HEALTH_CHECK", value |-> "health_check"] >>
ActionNames == {Action[i].name : i \in 1..Len(Action)}
\* action.value
ActionValue(member) == Action[CHOOSE i \in 1..Len(Action) : Action[i].name = member].value

\* str.upper() on the values of Action and the other tool names the modelled
\* server serves
upper(s) ==
  CASE s = "list_services" -> "LIST_SERVICES"
    [] s = "list_integrations" -> "LIST_INTEGRATIONS"
    [] s = "list_organizations" -> "LIST_ORGANIZATIONS"
    [] s = "list_collections" -> "LIST_COLLECTIONS"
    [] s = "confirm_ticket_creation" -> "CONFIRM_TICKET_CREATION"
    [] s = "create_ticket" -> "CREATE_TICKET"
    [] s = "list_tickets" -> "LIST_TICKETS"
    [] s = "health_check" -> "HEALTH_CHECK"
    [] s = "string_schema_tool" -> "STRING_SCHEMA_TOOL"
    [] OTHER -> s

\* -------------------------------------------------------------- exceptions
Exc(type, msg) == [type |-> type, msg |-> msg]
NoExc == Exc("", "")
Returned(v) == [ok |-> TRUE, v |-> v, exc |-> NoExc]
Raised(e) == [ok |-> FALSE, v |-> PyNone, exc |-> e]

\* ------------------------------------------------- catalog normalisation
\* dict(v) for a value that is no dict: the exception it raises, "" if none
\* (a list of two-item lists with hashable first items converts; the strings
\* of the model are never two characters long, so a list holding one does not)
DictCtorError(v) ==
  CASE v.tag \in {"int", "bool", "None"} -> "TypeError"
    [] v.tag = "str" -> "ValueError"
    [] v.tag = "list" ->
         IF \E i \in 1..Len(v.items) : v.items[i].tag \in {"int", "bool", "None"}
         THEN "TypeError"
         ELSE IF \E i \in 1..Len(v.items) :
                   \/ (v.items[i].tag = "list" /\ Len(v.items[i].items) # 2)
                   \/ (v.items[i].tag = "dict" /\ Len(v.items[i].kv) # 2)
                   \/ v.items[i].tag = "str"
         THEN "ValueError"
         ELSE IF \E i \in 1..Len(v.items) :
                   v.items[i].tag = "list" /\ v.items[i].items[1].tag \in {"list", "dict"}
         THEN "TypeError"
         ELSE ""
    [] OTHER -> ""

\* lines 52-56: the parsed value, or {} when json.loads raised JSONDecodeError
LoadedOrEmpty(r) == IF r.ok THEN r.v ELSE EmptyDict
\* lines 50-56: the schema after the optional json.loads
ParsedSchema(input_schema) ==
  IF IsStr(input_schema) THEN LoadedOrEmpty(json_loads(input_schema)) ELSE input_schema

\* "properties": dict(input_schema) if input_schema else {}
SchemaProperties(input_schema) ==
  IF ~Truthy(input_schema) THEN Returned(EmptyDict)
  ELSE IF IsDict(input_schema) THEN Returned(input_schema)
  ELSE IF DictCtorError(input_schema) # ""
       THEN Raised(Exc(DictCtorError(input_schema), "cannot convert to dict"))
  ELSE Returned(EmptyDict)

\* "required": input_schema.get("required", []) if input_schema else []
SchemaRequired(input_schema) ==
  IF ~Truthy(input_schema) THEN Returned(EmptyList)
  ELSE IF IsDict(input_schema) THEN Returned(DictGet(input_schema, "required", EmptyList))
  ELSE Raised(Exc("AttributeError", "object has no attribute 'get'"))

\* lines 59-67: the record, its values evaluated in the order they are written
ToolRecord(tool, props, req) ==
  IF ~props.ok THEN Raised(props.exc)
  ELSE IF ~req.ok THEN Raised(req.exc)
  ELSE Returned([name |-> tool.name,
                 description |-> tool.description,
                 parameters |-> [type |-> "object",
                                 properties |-> props.v,
                                 required |-> req.v]])
NormalizeParsed(tool, input_schema) ==
  ToolRecord(tool, SchemaProperties(input_schema), SchemaRequired(input_schema))
\* lines 48-67, one iteration: the record appended for one raw tool
NormalizeTool(tool) == NormalizeParsed(tool, ParsedSchema(tool.inputSchema))

\* lines 47-67: the loop; the first tool that raises ends it
RECURSIVE NormalizeFrom(_, _, _)
NormalizeNext(raw, i, acc, r) ==
  IF r.ok THEN NormalizeFrom(raw, i + 1, Append(acc, r.v))
  ELSE [ok |-> FALSE, tools |-> <<>>, exc |-> r.exc]
NormalizeFrom(raw, i, acc) ==
  IF i > Len(raw) THEN [ok |-> TRUE, tools |-> acc, exc |-> NoExc]
  ELSE NormalizeNext(raw, i, acc, NormalizeTool(raw[i]))
Normalize(raw) == NormalizeFrom(raw, 1, <<>>)

\* the `actions` argument: None, or a list of Action members (by member name)
NoActions == [none |-> TRUE, items |-> <<>>]
Actions(items) == [none |-> FALSE, items |-> items]

\* [action.value for action in actions]
ActionValues(actions) == [i \in 1..Len(actions.items) |-> ActionValue(actions.items[i])]
InSeq(x, s) == \E i \in 1..Len(s) : s[i] = x
RECURSIVE SelectNamed(_, _)
SelectNamed(tools, names) ==
  IF tools = <<>> THEN <<>>
  ELSE (IF InSeq(Head(tools).name, names) THEN <<Head(tools)>> ELSE <<>>)
       \o SelectNamed(Tail(tools), names)
\* FilterTools comparing tool names with the members' names instead of their values
FilterTools_ByMemberName(tools, actions) ==
  IF actions.none \/ Len(actions.items) = 0 THEN tools
  ELSE SelectNamed(tools, actions.items)
\* FilterTools testing `actions is not None`: an empty list selects nothing
FilterTools_EmptySelectsNone(tools, actions) ==
  IF actions.none THEN tools
  ELSE SelectNamed(tools, ActionValues(actions))
\* lines 68-70: `if actions:` is false for None and for the empty list
FilterTools(tools, actions) ==
  IF actions.none \/ Len(actions.items) = 0 THEN tools
  ELSE SelectNamed(tools, ActionValues(actions))

\* lines 74-76 and 90-92: the except clauses
ToolExecutionError(prefix, e) == Exc("ToolExecutionError", prefix \o e.msg)
FetchFailed(e) ==
  [ok |-> FALSE, tools |-> <<>>, exc |-> ToolExecutionError("Failed to fetch tools: ", e)]
\* lines 68-73 after the loop
FilterNormalized(n, actions) ==
  IF ~n.ok THEN FetchFailed(n.exc)
  ELSE [ok |-> TRUE, tools |-> FilterTools(n.tools, actions), exc |-> NoExc]
\* lines 45-76 given the list_tools reply: the try block and its except clause
CoreGetTools(reply, actions) ==
  IF ~reply.ok THEN FetchFailed(reply.exc)
  ELSE FilterNormalized(Normalize(reply.tools), actions)

\* ------------------------------------------- generated parameter schemas
\* `prop_name in schema.get("required", [])`: ok with the answer, or TypeError
InRequired(required, prop_name) ==
  CASE required.tag = "list" -> [ok |-> TRUE, v |-> ListHasStr(required, prop_name), exc |-> NoExc]
    [] required.tag = "dict" -> [ok |-> TRUE, v |-> DictHas(required, prop_name), exc |-> NoExc]
    [] required.tag = "str" ->
         [ok |-> TRUE, v |-> ("s" \in DOMAIN required /\ required.s = prop_name), exc |-> NoExc]
    [] OTHER -> [ok |-> FALSE, v |-> FALSE, exc |-> Exc("TypeError", "argument is not iterable")]

\* crewai lines 60-66 / langchain lines 24-30: the Python type of one property
TypeFor(schema_type) ==
  IF schema_type = PyStr("integer") THEN "int"
  ELSE IF schema_type = PyStr("boolean") THEN "bool"
  ELSE "str"
PropType(prop_schema) ==
  IF IsDict(prop_schema) THEN TypeFor(DictGet(prop_schema, "type", PyNone)) ELSE "str"

\* one entry of `fields`: (prop_type, None) when optional, (prop_type, ...) when required
Field(prop_name, prop_type, is_required) ==
  [name |-> prop_name, type |-> prop_type,
   default |-> IF is_required THEN "Ellipsis" ELSE "None"]
\* pydantic: a field is required when its default is Ellipsis
FieldIsRequired(f) == f.default = "Ellipsis"

\* crewai lines 58-67 / langchain lines 22-31: the fields, in properties order
RECURSIVE FieldsFrom(_, _, _, _)
FieldsNext(kv, required, i, acc, m) ==
  IF ~m.ok THEN [ok |-> FALSE, fields |-> <<>>, exc |-> m.exc]
  ELSE FieldsFrom(kv, required, i + 1, Append(acc, Field(kv[i].k, PropType(kv[i].v), m.v)))
FieldsFrom(kv, required, i, acc) ==
  IF i > Len(kv) THEN [ok |-> TRUE, fields |-> acc, exc |-> NoExc]
  ELSE FieldsNext(kv, required, i, acc, InRequired(required, kv[i].k))
GenFields(schema) == FieldsFrom(schema.properties.kv, schema.required, 1, <<>>)

\* create_model(f"{name}Schema", **fields)
create_model(name, fields) == [model_name |-> name \o "Schema", fields |-> fields]

\* ---------------------------------------------------------- the projectors
\* unizo_crewai: one UnizoCrewAITool per record, or the first exception
RECURSIVE CrewAITools(_, _, _)
CrewAITool(tool, fields) ==
  [name |-> tool.name, description |-> tool.description,
   action |-> upper(tool.name), args_schema |-> create_model(tool.name, fields)]
\* CrewAINext leaving out a tool whose name is no Action member
CrewAINext_SkipUnknown(tools, i, acc, f) ==
  IF ~f.ok THEN [ok |-> FALSE, tools |-> <<>>, exc |-> f.exc]
  ELSE IF upper(tools[i].name) \notin ActionNames
       THEN CrewAITools(tools, i + 1, acc)
  ELSE CrewAITools(tools, i + 1, Append(acc, CrewAITool(tools[i], f.fields)))
\* lines 52-81, one iteration: Action[name.upper()] raises KeyError for a name
\* that is no member
CrewAINext(tools, i, acc, f) ==
  IF ~f.ok THEN [ok |-> FALSE, tools |-> <<>>, exc |-> f.exc]
  ELSE IF upper(tools[i].name) \notin ActionNames
       THEN [ok |-> FALSE, tools |-> <<>>, exc |-> Exc("KeyError", upper(tools[i].name))]
  ELSE CrewAITools(tools, i + 1, Append(acc, CrewAITool(tools[i], f.fields)))
CrewAITools(tools, i, acc) ==
  IF i > Len(tools) THEN [ok |-> TRUE, tools |-> acc, exc |-> NoExc]
  ELSE CrewAINext(tools, i, acc, GenFields(tools[i].parameters))

\* unizo_langchain: one StructuredTool per record; tool_func reads the loop
\* variables `name` and `args_schema` of get_tools when it runs, so every
\* callable sees the values the last iteration left in them
RECURSIVE LangChainSchemas(_, _, _)
LangChainNext(tools, i, acc, f) ==
  IF ~f.ok THEN [ok |-> FALSE, tools |-> <<>>, exc |-> f.exc]
  ELSE LangChainSchemas(tools, i + 1,
         Append(acc, [name |-> tools[i].name,
                      description |-> tools[i].description,
                      args_schema |-> create_model(tools[i].name, f.fields)]))
LangChainSchemas(tools, i, acc) ==
  IF i > Len(tools) THEN [ok |-> TRUE, tools |-> acc, exc |-> NoExc]
  ELSE LangChainNext(tools, i, acc, GenFields(tools[i].parameters))
BindClosures(r) ==
  IF ~r.ok THEN r
  ELSE [ok |-> TRUE, exc |-> NoExc,
        tools |-> [i \in 1..Len(r.tools) |->
                     [name |-> r.tools[i].name,
                      description |-> r.tools[i].description,
                      args_schema |-> r.tools[i].args_schema,
                      closure |-> [name |-> r.tools[Len(r.tools)].name,
                                   args_schema |-> r.tools[Len(r.tools)].args_schema]]]]
LangChainTools(tools) == BindClosures(LangChainSchemas(tools, 1, <<>>))

\* OpenAITools giving the flat descriptors, name and parameters beside `type`
OpenAITools_Flat(tools) ==
  [i \in 1..Len(tools) |->
     [type |-> "function",
      name |-> tools[i].name,
      description |-> tools[i].description,
      parameters |-> tools[i].parameters]]
\* unizo_openai: the function descriptors
OpenAITools(tools) ==
  [i \in 1..Len(tools) |->
     [type |-> "function",
      function |-> [name |-> tools[i].name,
                    description |-> tools[i].description,
                    parameters |-> tools[i].parameters]]]

Classes == {"UnizoToolSet", "UnizoOpenAIToolSet", "UnizoCrewAIToolSet", "UnizoLangChainToolSet"}

\* the projection a subclass applies to what super().get_tools returned
Project(c, base) ==
  IF ~base.ok THEN base
  ELSE IF c = "UnizoCrewAIToolSet" THEN CrewAITools(base.tools, 1, <<>>)
  ELSE IF c = "UnizoLangChainToolSet" THEN LangChainTools(base.tools)
  ELSE IF c = "UnizoOpenAIToolSet"
       THEN [ok |-> TRUE, tools |-> OpenAITools(base.tools), exc |-> NoExc]
  ELSE base
\* get_tools of class c after the list_tools reply
GetTools(c, reply, actions) == Project(c, CoreGetTools(reply, actions))

\* ---------------------------------------------------------- execute_action
\* a content item: TextContent has a text attribute, ImageContent has none
TextContent(text) == [hasText |-> TRUE, text |-> text]
ImageContent == [hasText |-> FALSE, text |-> PyNone]
\* a CallToolResult
CallToolResult(hasStructured, structuredContent, content) ==
  [hasStructured |-> hasStructured, structuredContent |-> structuredContent, content |-> content]

\* lines 85-87: [json.loads(content.text) for content in result.content if hasattr(content, 'text')]
RECURSIVE TextPayloads(_, _, _)
PayloadNext(content, i, acc, r) ==
  IF ~r.ok THEN Raised(Exc("JSONDecodeError", "Expecting value"))
  ELSE TextPayloads(content, i + 1, Append(acc, r.v))
TextPayloads(content, i, acc) ==
  IF i > Len(content) THEN Returned(PyList(acc))
  ELSE IF ~content[i].hasText THEN TextPayloads(content, i + 1, acc)
  ELSE PayloadNext(content, i, acc, json_loads(content[i].text))

\* lines 84-87: structuredContent when present and truthy, else the text payloads
ToolResult(result) ==
  IF result.hasStructured /\ Truthy(result.structuredContent)
  THEN Returned(result.structuredContent)
  ELSE TextPayloads(result.content, 1, <<>>)

\* Unwrap taking the first element of every non-empty list
Unwrap_FirstOfAny(tool_result) ==
  IF IsList(tool_result) /\ Len(tool_result.items) >= 1
  THEN tool_result.items[1]
  ELSE tool_result
\* line 89
Unwrap(tool_result) ==
  IF IsList(tool_result) /\ Len(tool_result.items) = 1
  THEN tool_result.items[1]
  ELSE tool_result

\* WrapExecuteError letting the original exception through
WrapExecuteError_Reraise(e) == e
\* lines 90-92: the except clause
WrapExecuteError(e) == ToolExecutionError("Failed to execute action: ", e)

\* lines 88-89, or the except clause when building tool_result raised
ReturnUnwrapped(r) ==
  IF ~r.ok THEN Raised(WrapExecuteError(r.exc)) ELSE Returned(Unwrap(r.v))
\* lines 82-92 given the call_tool reply
ExecuteAction(reply) ==
  IF ~reply.ok THEN Raised(WrapExecuteError(reply.exc))
  ELSE ReturnUnwrapped(ToolResult(reply.result))

\* ------------------------------------------------------------- constructor
\* ToolSetInit testing `api_key is None` instead of `not api_key`
ToolSetInit_NoneOnly(api_key) ==
  IF api_key = PyNone THEN Raised(Exc("ValueError", "UNIZO_API_KEY is required"))
  ELSE Returned(api_key)
\* UnizoToolSet.__init__ (UnizoOpenAIToolSet.__init__ calls it first; the other
\* subclasses inherit it)
ToolSetInit(api_key) ==
  IF ~Truthy(api_key) THEN Raised(Exc("ValueError", "UNIZO_API_KEY is required"))
  ELSE Returned(api_key)

\* ------------------------------------------------------ invoking the tools
\* pydantic (lax mode): whether a field of Python type t takes the value v
Accepts(t, v) ==
  CASE t = "str" -> v.tag = "str"
    [] t = "int" -> v.tag \in {"int", "bool"}
    [] t = "bool" -> v.tag = "bool" \/ (v.tag = "int" /\ v.n \in {0, 1})
    [] OTHER -> FALSE
\* a field rejects the parameters: its value has the wrong type, or it is
\* required and missing (keys that are no field are ignored)
FieldError(f, params) ==
  IF DictHas(params, f.name) THEN ~Accepts(f.type, DictGet(params, f.name, PyNone))
  ELSE FieldIsRequired(f)
\* args_schema(**actual_params): the type of the exception raised, "" if none
Validate(model, actual_params) ==
  IF ~IsDict(actual_params) THEN "TypeError"
  ELSE IF \E i \in 1..Len(model.fields) : FieldError(model.fields[i], actual_params)
       THEN "ValidationError"
  ELSE ""

\* langchain lines 44-48: json.loads raised JSONDecodeError, or returned
ParsedProperties(r) ==
  IF r.ok THEN Returned(r.v)
  ELSE Raised(ToolExecutionError("Invalid JSON in properties: ",
                                 Exc("JSONDecodeError", "Expecting value")))
\* json.loads(params["properties"]): TypeError for what is no str, outside the except clause
LoadedProperties(v) ==
  IF ~IsStr(v) THEN Raised(Exc("TypeError", "the JSON object must be str, bytes or bytearray"))
  ELSE ParsedProperties(json_loads(v))
\* langchain lines 42-48: actual_params
ActualParams(params) ==
  IF DictHas(params, "properties") THEN LoadedProperties(DictGet(params, "properties", PyNone))
  ELSE Returned(params)

\* what tool_func does before it awaits execute_action: raise, or dispatch
NoDispatch(e) == [ok |-> FALSE, exc |-> e, action |-> "", params |-> PyNone]
Dispatch(action, params) == [ok |-> TRUE, exc |-> NoExc, action |-> action, params |-> params]
\* langchain line 56: Action[name.upper()] raises KeyError for a name that is no member
DispatchByName(name, actual_params) ==
  IF upper(name) \in ActionNames THEN Dispatch(upper(name), actual_params)
  ELSE NoDispatch(Exc("KeyError", upper(name)))
\* langchain lines 50-56: args_schema(**actual_params) inside try / except Exception
ValidateThenDispatch(closure, a, err) ==
  IF err # ""
  THEN NoDispatch(ToolExecutionError("Invalid parameters for " \o closure.name \o ": ",
                                     Exc(err, "validation failed")))
  ELSE DispatchByName(closure.name, a.v)
ValidateActual(closure, a) ==
  IF ~a.ok THEN NoDispatch(a.exc)
  ELSE ValidateThenDispatch(closure, a, Validate(closure.args_schema, a.v))
\* langchain lines 39-56 up to the await; closure holds the values tool_func
\* finds in `name` and `args_schema` when it runs
PreDispatch(closure, params) == ValidateActual(closure, ActualParams(params))

\* an {"error": text} object
ErrorObject(text) == PyDict(<<KV("error", PyStr(text))>>)
\* crewai lines 28-30: asyncio.wait_for raised TimeoutError
TimedOut(name) == ErrorObject("Tool " \o name \o " timed out after 30 seconds")
\* crewai lines 31-33 and 43-45: except Exception as e
FailedToExecute(name, e) == ErrorObject("Failed to execute " \o name \o ": " \o e.msg)
\* AsyncRunResult whose error object does not name the tool
AsyncRunResult_Unlabelled(name, r) == IF r.ok THEN r.v ELSE ErrorObject(r.exc.msg)
\* crewai lines 22-33 once execute_action returned or raised within the timeout
AsyncRunResult(name, r) == IF r.ok THEN r.v ELSE FailedToExecute(name, r.exc)
\* crewai line 40: run_until_complete on the loop that is running
RunUntilCompleteError == Exc("RuntimeError", "This event loop is already running")

\* ------------------------------------------------------------------ inputs
\* the schemas the modelled server publishes
SchemaType(t) == PyDict(<<KV("type", PyStr(t))>>)
SchemaABC ==
  PyDict(<<KV("type", PyStr("object")),
           KV("properties", PyDict(<<KV("a", SchemaType("string")),
                                     KV("b", SchemaType("integer")),
                                     KV("c", SchemaType("boolean"))>>)),
           KV("required", PyList(<<PyStr("a"), PyStr("b")>>))>>)
SchemaFoo ==
  PyDict(<<KV("type", PyStr("object")),
           KV("properties", PyDict(<<KV("foo", SchemaType("string"))>>)),
           KV("required", PyList(<<PyStr("foo")>>))>>)
SchemaNoProperties == PyDict(<<KV("type", PyStr("object"))>>)
\* a JSON text cut short, and a JSON text that holds a list
MalformedText == PyText(SubSeq(json_dumps(SchemaFoo).toks, 1, Len(json_dumps(SchemaFoo).toks) - 1))
ListText == json_dumps(PyList(<<PyInt(1)>>))

RawTool(name, description, inputSchema) ==
  [name |-> name, description |-> description, inputSchema |-> inputSchema]
RawTools ==
  { RawTool("create_ticket", "Create a new ticket", SchemaABC),
    RawTool("health_check", "Check server health", EmptyDict),
    RawTool("string_schema_tool", "Tool with JSON-string schema", json_dumps(SchemaFoo)),
    RawTool("health_check", "Check server health", MalformedText),
    RawTool("create_ticket", "Create a new ticket", ListText),
    RawTool("list_tickets", "List tickets in a collection", SchemaNoProperties) }
Catalogs == UNION {[1..n -> RawTools] : n \in 0..MaxTools}

ActionArgs ==
  { NoActions, Actions(<<>>),
    Actions(<<"CREATE_TICKET">>),
    Actions(<<"HEALTH_CHECK", "CREATE_TICKET">>),
    Actions(<<"HEALTH_CHECK", "HEALTH_CHECK">>),
    Actions(<<"LIST_INTEGRATIONS">>) }

\* what the transport raises
TransportErrors == {Exc("RuntimeError", "connection lost"), Exc("ConnectionError", "refused")}

ListReplies ==
  {[ok |-> TRUE, tools |-> c, exc |-> NoExc] : c \in Catalogs}
  \cup {[ok |-> FALSE, tools |-> <<>>, exc |-> e] : e \in TransportErrors}

TicketOk == PyDict(<<KV("status", PyStr("ok")), KV("ticket_id", PyStr("T-001"))>>)
StructuredOk == PyDict(<<KV("status", PyStr("structured_ok"))>>)
StructuredContents ==
  { PyNone, EmptyDict, EmptyList, StructuredOk,
    PyList(<<StructuredOk>>), PyList(<<StructuredOk, TicketOk>>) }
Contents ==
  { <<>>,
    <<TextContent(json_dumps(TicketOk))>>,
    <<TextContent(json_dumps(TicketOk)), TextContent(json_dumps(PyInt(7)))>>,
    <<ImageContent, TextContent(ListText)>>,
    <<ImageContent>>,
    <<TextContent(MalformedText)>> }
CallToolResults ==
  {CallToolResult(TRUE, sc, c) : sc \in StructuredContents, c \in Contents}
  \cup {CallToolResult(FALSE, PyNone, c) : c \in Contents}
NoResult == CallToolResult(FALSE, PyNone, <<>>)
CallReplies ==
  {[ok |-> TRUE, result |-> r, exc |-> NoExc] : r \in CallToolResults}
  \cup {[ok |-> FALSE, result |-> NoResult, exc |-> e] : e \in TransportErrors}

ExecuteArgs ==
  {[action |-> a, params |-> p] :
     a \in {"HEALTH_CHECK", "CREATE_TICKET"},
     p \in {EmptyDict, PyDict(<<KV("a", PyStr("x"))>>)}}

ApiKeys == {PyNone, PyStr(""), PyStr("key_abc123")}

\* the parameters the tools are invoked with
ParamsA == PyDict(<<KV("a", PyStr("x"))>>)
InvokeParams ==
  { EmptyDict,
    PyDict(<<KV("type", EmptyDict)>>),
    PyDict(<<KV("properties", json_dumps(ParamsA))>>),
    PyDict(<<KV("properties", MalformedText)>>),
    PyDict(<<KV("properties", ListText)>>),
    PyDict(<<KV("properties", PyInt(5))>>) }

\* ------------------------------------------------------------------- state
VARIABLES
  cls,              \* the class of the instance, "none" before one exists
  api_key,          \* self.api_key
  ctor,             \* the outcome of the last constructor call
  session,          \* self.session: 0 is None, k the session the k-th connect() entered
  streams_context,  \* self._streams_context: 0 unset, k the one the k-th connect() made
  session_context,  \* self._session_context, likewise
  entered,          \* the contexts entered and not exited
  exits,            \* how many times __aexit__ was called on each context
  connectCalls,     \* how many times connect() has been called
  pc,               \* where each task's call is suspended
  op,               \* the method each task is running
  conn,             \* the connect() call each task is inside
  last,             \* the outcome of the call that finished last
  fetched,          \* the list the last get_tools gave a caller who keeps it
  inv               \* the last invocation of one of the tools of that list

vars == <<cls, api_key, ctor, session, streams_context, session_context, entered, exits,
          connectCalls, pc, op, conn, last, fetched, inv>>

\* the context managers connect() can make
Contexts == {"session", "streams"} \X (1..MaxConnects)

NoListReply == [ok |-> FALSE, tools |-> <<>>, exc |-> NoExc]
NoCallReply == [ok |-> FALSE, result |-> NoResult, exc |-> NoExc]
\* a call's record: status is pending until the call returns or raises; stage
\* is where it ended ("connect" or "body")
CallRecord(t, o) ==
  [task |-> t, op |-> o, status |-> "pending", stage |-> "", exc |-> NoExc,
   replied |-> FALSE, list_reply |-> NoListReply, actions |-> NoActions, tools |-> <<>>,
   call_reply |-> NoCallReply, action |-> "", params |-> PyNone, result |-> PyNone]
NoCall == CallRecord(0, "none")

\* what a caller keeps of a get_tools call: the reply it was computed from, the
\* outcome, and the outcome of the call before it when that one had the same
\* catalog and the same `actions`
NoFetch ==
  [status |-> "none", list_reply |-> NoListReply, actions |-> NoActions,
   tools |-> <<>>, exc |-> NoExc,
   again |-> FALSE, prior_status |-> "none", prior_tools |-> <<>>, prior_exc |-> NoExc]
FetchRecord(old, reply, actions, r, again) ==
  [status |-> IF r.ok THEN "returned" ELSE "raised",
   list_reply |-> reply, actions |-> actions, tools |-> r.tools, exc |-> r.exc,
   again |-> again,
   prior_status |-> IF again THEN old.status ELSE "none",
   prior_tools |-> IF again THEN old.tools ELSE <<>>,
   prior_exc |-> IF again THEN old.exc ELSE NoExc]
Fetched(old, reply, actions, r) ==
  FetchRecord(old, reply, actions, r,
              old.status # "none" /\ old.list_reply = reply /\ old.actions = actions)

\* an invocation of tool k of the kept list: `dispatched` counts its calls of
\* execute_action, with `action` and `actual` as arguments
NoInv ==
  [via |-> "none", status |-> "none", k |-> 0, name |-> "", params |-> PyNone,
   loop_running |-> FALSE, dispatched |-> 0, action |-> "", actual |-> PyNone,
   result |-> PyNone, exc |-> NoExc]
Invoked(via, k, name, params, loop_running) ==
  [NoInv EXCEPT !.via = via, !.status = "pending", !.k = k, !.name = name,
                !.params = params, !.loop_running = loop_running]
Dispatched(i, action, actual) ==
  [i EXCEPT !.dispatched = 1, !.action = action, !.actual = actual]
InvReturned(i, v) == [i EXCEPT !.status = "returned", !.result = v]
InvRaised(i, e) == [i EXCEPT !.status = "raised", !.exc = e]
\* execute_action returned or raised into the tool that awaits it: tool_func
\* passes either on, _async_run (and _run through it) returns in both cases
InvAfter(i, r) ==
  IF i.status # "pending" THEN i
  ELSE IF i.via = "tool_func" THEN (IF r.ok THEN InvReturned(i, r.v) ELSE InvRaised(i, r.exc))
  ELSE InvReturned(i, AsyncRunResult(i.name, r))

Init ==
  /\ cls = "none"
  /\ api_key = PyNone
  /\ ctor = [status |-> "none", exc |-> NoExc, api_key |-> PyNone, cls |-> "none"]
  /\ session = 0
  /\ streams_context = 0
  /\ session_context = 0
  /\ entered = {}
  /\ exits = [c \in Contexts |-> 0]
  /\ connectCalls = 0
  /\ pc = [t \in Tasks |-> "idle"]
  /\ op = [t \in Tasks |-> "none"]
  /\ conn = [t \in Tasks |-> 0]
  /\ last = NoCall
  /\ fetched = NoFetch
  /\ inv = NoInv

\* the constructor call ended as r: an instance exists only if __init__ returned
Constructed(c, key, r) ==
  /\ ctor' = [status |-> IF r.ok THEN "returned" ELSE "raised",
              exc |-> r.exc, api_key |-> key, cls |-> c]
  /\ cls' = IF r.ok THEN c ELSE "none"
  /\ api_key' = IF r.ok THEN r.v ELSE api_key

\* UnizoToolSet(api_key) or a subclass: __init__
Construct(classes) ==
  /\ cls = "none"
  /\ \E c \in classes, key \in ApiKeys : Constructed(c, key, ToolSetInit(key))
  /\ UNCHANGED <<session, streams_context, session_context, entered, exits, connectCalls,
                 pc, op, conn, last, fetched, inv>>

\* NeedsConnect connecting again once a call has raised
NeedsConnect_AfterFailure == session = 0 \/ last.status = "raised"
\* lines 43 / 80: `not self.session`
NeedsConnect == session = 0

\* lines 43-44 / 80-81: `if not self.session: await self.connect()`, up to the
\* first suspension: inside connect() at `await self._streams_context.__aenter__()`
\* (line 33), or at the awaited list_tools / call_tool of the try block
Enter(t, o) ==
  /\ cls # "none"
  /\ pc[t] = "idle"
  /\ op' = [op EXCEPT ![t] = o]
  /\ last' = CallRecord(t, o)
  /\ \/ /\ NeedsConnect
        /\ connectCalls < MaxConnects
        /\ connectCalls' = connectCalls + 1
        /\ conn' = [conn EXCEPT ![t] = connectCalls + 1]
        /\ streams_context' = connectCalls + 1
        /\ pc' = [pc EXCEPT ![t] = "connect_streams"]
     \/ /\ ~NeedsConnect
        /\ pc' = [pc EXCEPT ![t] = "body"]
        /\ UNCHANGED <<connectCalls, conn, streams_context>>
  /\ UNCHANGED <<cls, api_key, ctor, session, session_context, entered, exits, fetched>>

\* a call made by the user of the instance, not through one of its tools
get_tools(t) == Enter(t, "get_tools") /\ inv' = NoInv
execute_action(t) == Enter(t, "execute_action") /\ inv' = NoInv

\* an exception raised inside connect() leaves get_tools / execute_action as it is:
\* the call to connect() is outside their try block
ConnectRaises(t, e) ==
  /\ last' = [CallRecord(t, op[t]) EXCEPT !.status = "raised", !.stage = "connect", !.exc = e]
  /\ pc' = [pc EXCEPT ![t] = "idle"]
  /\ op' = [op EXCEPT ![t] = "none"]
  /\ conn' = [conn EXCEPT ![t] = 0]
  /\ inv' = InvAfter(inv, Raised(e))

\* line 33 completes; line 34 runs; line 35 suspends
connect_streams(t) ==
  /\ pc[t] = "connect_streams"
  /\ \/ /\ entered' = entered \cup {<<"streams", conn[t]>>}
        /\ session_context' = conn[t]
        /\ pc' = [pc EXCEPT ![t] = "connect_session"]
        /\ UNCHANGED <<op, conn, last, inv>>
     \/ /\ \E e \in TransportErrors : ConnectRaises(t, e)
        /\ UNCHANGED <<entered, session_context>>
  /\ UNCHANGED <<cls, api_key, ctor, session, streams_context, connectCalls, exits, fetched>>

\* line 35 completes (self.session is assigned); line 36 suspends
connect_session(t) ==
  /\ pc[t] = "connect_session"
  /\ \/ /\ entered' = entered \cup {<<"session", conn[t]>>}
        /\ session' = conn[t]
        /\ pc' = [pc EXCEPT ![t] = "connect_initialize"]
        /\ UNCHANGED <<op, conn, last, inv>>
     \/ /\ \E e \in TransportErrors : ConnectRaises(t, e)
        /\ UNCHANGED <<entered, session>>
  /\ UNCHANGED <<cls, api_key, ctor, streams_context, session_context, connectCalls,
                 exits, fetched>>

\* line 36 completes; line 37 suspends
connect_initialize(t) ==
  /\ pc[t] = "connect_initialize"
  /\ \/ /\ pc' = [pc EXCEPT ![t] = "connect_list_tools"]
        /\ UNCHANGED <<op, conn, last, inv>>
     \/ \E e \in TransportErrors : ConnectRaises(t, e)
  /\ UNCHANGED <<cls, api_key, ctor, session, streams_context, session_context,
                 entered, connectCalls, exits, fetched>>

\* line 37 completes; connect() returns and the caller's try block suspends on
\* its own list_tools / call_tool
connect_list_tools(t) ==
  /\ pc[t] = "connect_list_tools"
  /\ \/ /\ pc' = [pc EXCEPT ![t] = "body"]
        /\ conn' = [conn EXCEPT ![t] = 0]
        /\ UNCHANGED <<op, last, inv>>
     \/ \E e \in TransportErrors : ConnectRaises(t, e)
  /\ UNCHANGED <<cls, api_key, ctor, session, streams_context, session_context,
                 entered, connectCalls, exits, fetched>>

GetToolsRecord(t, reply, actions, r) ==
  [CallRecord(t, "get_tools") EXCEPT
     !.status = IF r.ok THEN "returned" ELSE "raised",
     !.stage = "body", !.exc = r.exc, !.replied = TRUE,
     !.list_reply = reply, !.actions = actions, !.tools = r.tools]
ExecuteRecord(t, reply, args, r) ==
  [CallRecord(t, "execute_action") EXCEPT
     !.status = IF r.ok THEN "returned" ELSE "raised",
     !.stage = "body", !.exc = r.exc, !.replied = TRUE,
     !.call_reply = reply, !.action = args.action,
     !.params = args.params, !.result = r.v]

\* get_tools whose result also holds what the call before it returned
GetToolsResult_Accumulating(reply, actions) ==
  [GetTools(cls, reply, actions) EXCEPT !.tools = fetched.tools \o @]
\* what get_tools of this instance returns or raises for a list_tools reply
GetToolsResult(reply, actions) == GetTools(cls, reply, actions)

\* get_tools lines 45-76: list_tools replies and the call returns or raises;
\* the caller keeps the list or drops it
GotTools(t, reply, actions, r, keep) ==
  /\ last' = GetToolsRecord(t, reply, actions, r)
  /\ fetched' = IF keep THEN Fetched(fetched, reply, actions, r) ELSE fetched
get_tools_reply(t, replies, actionArgs, keeps) ==
  /\ pc[t] = "body"
  /\ op[t] = "get_tools"
  /\ \E reply \in replies, actions \in actionArgs, keep \in keeps :
       GotTools(t, reply, actions, GetToolsResult(reply, actions), keep)
  /\ pc' = [pc EXCEPT ![t] = "idle"]
  /\ op' = [op EXCEPT ![t] = "none"]
  /\ UNCHANGED <<cls, api_key, ctor, session, streams_context, session_context,
                 entered, exits, connectCalls, conn, inv>>

\* the arguments of the running execute_action: those its tool passed, or the user's
CallArgs(executeArgs) ==
  IF inv.status = "pending" THEN {[action |-> inv.action, params |-> inv.actual]}
  ELSE executeArgs
Executed(t, reply, args, r) ==
  /\ last' = ExecuteRecord(t, reply, args, r)
  /\ inv' = InvAfter(inv, r)
\* execute_action lines 82-92: call_tool replies and the call returns or raises
execute_action_reply(t, replies, executeArgs) ==
  /\ pc[t] = "body"
  /\ op[t] = "execute_action"
  /\ \E reply \in replies, args \in CallArgs(executeArgs) :
       Executed(t, reply, args, ExecuteAction(reply))
  /\ pc' = [pc EXCEPT ![t] = "idle"]
  /\ op' = [op EXCEPT ![t] = "none"]
  /\ UNCHANGED <<cls, api_key, ctor, session, streams_context, session_context,
                 entered, exits, connectCalls, conn, fetched>>

\* one caller, each call awaited before the next: every input of the model
Next ==
  \/ Construct(Classes)
  \/ get_tools(1)
  \/ execute_action(1)
  \/ connect_streams(1)
  \/ connect_session(1)
  \/ connect_initialize(1)
  \/ connect_list_tools(1)
  \/ get_tools_reply(1, ListReplies, ActionArgs, {FALSE})
  \/ execute_action_reply(1, CallReplies, ExecuteArgs)

Spec == Init /\ [][Next]_vars

\* the tasks of one event loop calling into one instance, interleaved at the
\* awaits; the replies are drawn from smaller sets
ConcListReplies ==
  { [ok |-> TRUE, tools |-> <<>>, exc |-> NoExc],
    [ok |-> TRUE, tools |-> <<RawTool("create_ticket", "Create a new ticket", SchemaABC)>>,
     exc |-> NoExc],
    [ok |-> FALSE, tools |-> <<>>, exc |-> Exc("RuntimeError", "connection lost")] }
ConcCallReplies ==
  { [ok |-> TRUE, exc |-> NoExc,
     result |-> CallToolResult(FALSE, PyNone, <<TextContent(json_dumps(TicketOk))>>)],
    [ok |-> FALSE, result |-> NoResult, exc |-> Exc("RuntimeError", "connection lost")] }
ConcExecuteArgs == {[action |-> "HEALTH_CHECK", params |-> EmptyDict]}

NextConcurrent ==
  \/ Construct({"UnizoToolSet"})
  \/ \E t \in Tasks : get_tools(t)
  \/ \E t \in Tasks : execute_action(t)
  \/ \E t \in Tasks : connect_streams(t)
  \/ \E t \in Tasks : connect_session(t)
  \/ \E t \in Tasks : connect_initialize(t)
  \/ \E t \in Tasks : connect_list_tools(t)
  \/ \E t \in Tasks : get_tools_reply(t, ConcListReplies, {NoActions}, {FALSE})
  \/ \E t \in Tasks : execute_action_reply(t, ConcCallReplies, ConcExecuteArgs)

SpecConcurrent == Init /\ [][NextConcurrent]_vars

\* ------------------------------------------------------- the tools in use
\* every variable but those Enter and the invocation record change
UnchangedByTool ==
  UNCHANGED <<cls, api_key, ctor, session, streams_context, session_context, entered,
              exits, connectCalls, pc, op, conn, last, fetched>>

\* tool_func ran up to line 56: it raised, or it awaits execute_action
ToolFuncCalled(t, i, d) ==
  IF d.ok
  THEN Enter(t, "execute_action") /\ inv' = Dispatched(i, d.action, d.params)
  ELSE inv' = InvRaised(i, d.exc) /\ UnchangedByTool
\* langchain lines 39-56: the coroutine of tool k of the kept list is called
tool_func(t) ==
  /\ cls = "UnizoLangChainToolSet"
  /\ pc[t] = "idle"
  /\ fetched.status = "returned"
  /\ \E k \in 1..Len(fetched.tools), params \in InvokeParams :
       ToolFuncCalled(t, Invoked("tool_func", k, fetched.tools[k].name, params, TRUE),
                      PreDispatch(fetched.tools[k].closure, params))

\* crewai lines 22-27: wait_for awaits execute_action(self._action, params)
AsyncRunCalled(t, i, tool) ==
  Enter(t, "execute_action") /\ inv' = Dispatched(i, tool.action, i.params)
\* UnizoCrewAITool._async_run of tool k of the kept list, awaited on the running loop
async_run(t) ==
  /\ cls = "UnizoCrewAIToolSet"
  /\ pc[t] = "idle"
  /\ fetched.status = "returned"
  /\ \E k \in 1..Len(fetched.tools), params \in InvokeParams :
       AsyncRunCalled(t, Invoked("_async_run", k, fetched.tools[k].name, params, TRUE),
                      fetched.tools[k])

\* crewai lines 37-45: with a running loop run_until_complete raises RuntimeError
\* at once and the except clause returns; without one asyncio.run drives _async_run
RunCalled(t, i, tool) ==
  IF i.loop_running
  THEN inv' = InvReturned(i, FailedToExecute(i.name, RunUntilCompleteError)) /\ UnchangedByTool
  ELSE AsyncRunCalled(t, i, tool)
\* UnizoCrewAITool._run of tool k of the kept list
run(t) ==
  /\ cls = "UnizoCrewAIToolSet"
  /\ pc[t] = "idle"
  /\ fetched.status = "returned"
  /\ \E k \in 1..Len(fetched.tools), params \in InvokeParams, loop_running \in BOOLEAN :
       RunCalled(t, Invoked("_run", k, fetched.tools[k].name, params, loop_running),
                 fetched.tools[k])

\* crewai lines 24-30: 30 seconds pass before execute_action completes; wait_for
\* cancels it and raises TimeoutError
wait_for_timeout(t) ==
  /\ inv.status = "pending"
  /\ inv.via \in {"_async_run", "_run"}
  /\ pc[t] # "idle"
  /\ op[t] = "execute_action"
  /\ inv' = InvReturned(inv, TimedOut(inv.name))
  /\ last' = [last EXCEPT !.status = "cancelled"]
  /\ pc' = [pc EXCEPT ![t] = "idle"]
  /\ op' = [op EXCEPT ![t] = "none"]
  /\ conn' = [conn EXCEPT ![t] = 0]
  /\ UNCHANGED <<cls, api_key, ctor, session, streams_context, session_context, entered,
                 exits, connectCalls, fetched>>

\* ----------------------------------------------------------------- cleanup
\* __aexit__ returns or raises, as the library and the state of the connection
\* decide; this is what it raises for a context that is entered, and for one
\* that is not (never entered, or exited before)
ExitError(c) ==
  IF c \in entered THEN Exc("RuntimeError", "connection lost")
  ELSE Exc("RuntimeError", "context is not entered")
\* cleanup() ends
CleanupEnds(t, status, e) ==
  /\ last' = [CallRecord(t, "cleanup") EXCEPT !.status = status, !.stage = "body", !.exc = e]
  /\ pc' = [pc EXCEPT ![t] = "idle"]
  /\ op' = [op EXCEPT ![t] = "none"]
\* cleanup() suspends at the __aexit__ of line 98 or line 100
CleanupAwaits(t, at) ==
  /\ last' = CallRecord(t, "cleanup")
  /\ pc' = [pc EXCEPT ![t] = at]
  /\ op' = [op EXCEPT ![t] = "cleanup"]

\* lines 96-97 (the exit stack is never given anything to close): up to the
\* first __aexit__, or to the end when no context was ever made
cleanup(t) ==
  /\ cls # "none"
  /\ pc[t] = "idle"
  /\ session_context # 0 => exits[<<"session", session_context>>] < MaxCleanups
  /\ streams_context # 0 => exits[<<"streams", streams_context>>] < MaxCleanups
  /\ IF session_context # 0 THEN CleanupAwaits(t, "cleanup_session")
     ELSE IF streams_context # 0 THEN CleanupAwaits(t, "cleanup_streams")
     ELSE CleanupEnds(t, "returned", NoExc)
  /\ inv' = NoInv
  /\ UNCHANGED <<cls, api_key, ctor, session, streams_context, session_context, entered,
                 exits, connectCalls, conn, fetched>>

\* line 98 completes: self._session_context.__aexit__(None, None, None)
cleanup_session(t) ==
  /\ pc[t] = "cleanup_session"
  /\ exits' = [exits EXCEPT ![<<"session", session_context>>] = @ + 1]
  /\ entered' = entered \ {<<"session", session_context>>}
  /\ \/ IF streams_context # 0 THEN CleanupAwaits(t, "cleanup_streams")
        ELSE CleanupEnds(t, "returned", NoExc)
     \/ CleanupEnds(t, "raised", ExitError(<<"session", session_context>>))
  /\ UNCHANGED <<cls, api_key, ctor, session, streams_context, session_context,
                 connectCalls, conn, fetched, inv>>

\* line 100 completes: self._streams_context.__aexit__(None, None, None)
cleanup_streams(t) ==
  /\ pc[t] = "cleanup_streams"
  /\ exits' = [exits EXCEPT ![<<"streams", streams_context>>] = @ + 1]
  /\ entered' = entered \ {<<"streams", streams_context>>}
  /\ \/ CleanupEnds(t, "returned", NoExc)
     \/ CleanupEnds(t, "raised", ExitError(<<"streams", streams_context>>))
  /\ UNCHANGED <<cls, api_key, ctor, session, streams_context, session_context,
                 connectCalls, conn, fetched, inv>>

\* ------------------------------------------------- further specifications
\* a caller that keeps the list get_tools returns and invokes its tools
CreateTicket == RawTool("create_ticket", "Create a new ticket", SchemaABC)
HealthCheck == RawTool("health_check", "Check server health", EmptyDict)
ToolCatalogs ==
  { <<>>, <<CreateTicket>>, <<HealthCheck>>,
    <<CreateTicket, HealthCheck>>, <<HealthCheck, CreateTicket>> }
ToolListReplies ==
  {[ok |-> TRUE, tools |-> c, exc |-> NoExc] : c \in ToolCatalogs}
  \cup {[ok |-> FALSE, tools |-> <<>>, exc |-> Exc("RuntimeError", "connection lost")]}
ToolActionArgs == {NoActions, Actions(<<"CREATE_TICKET">>)}
ToolCallReplies ==
  { [ok |-> TRUE, exc |-> NoExc,
     result |-> CallToolResult(FALSE, PyNone, <<TextContent(json_dumps(TicketOk))>>)],
    [ok |-> TRUE, exc |-> NoExc,
     result |-> CallToolResult(FALSE, PyNone, <<TextContent(MalformedText)>>)],
    [ok |-> FALSE, result |-> NoResult, exc |-> Exc("RuntimeError", "connection lost")] }

NextTools ==
  \/ Construct(Classes)
  \/ get_tools(1)
  \/ connect_streams(1)
  \/ connect_session(1)
  \/ connect_initialize(1)
  \/ connect_list_tools(1)
  \/ get_tools_reply(1, ToolListReplies, ToolActionArgs, {TRUE})
  \/ tool_func(1)
  \/ async_run(1)
  \/ run(1)
  \/ wait_for_timeout(1)
  \/ execute_action_reply(1, ToolCallReplies, ExecuteArgs)

SpecTools == Init /\ [][NextTools]_vars

\* one caller that connects and cleans up
NextLifecycle ==
  \/ Construct({"UnizoToolSet"})
  \/ get_tools(1)
  \/ connect_streams(1)
  \/ connect_session(1)
  \/ connect_initialize(1)
  \/ connect_list_tools(1)
  \/ get_tools_reply(1, ConcListReplies, {NoActions}, {FALSE})
  \/ cleanup(1)
  \/ cleanup_session(1)
  \/ cleanup_streams(1)

SpecLifecycle == Init /\ [][NextLifecycle]_vars

\* ------------------------------------------------------------------ claims
\* what the call that finished last was
GotCatalog == last.op = "get_tools" /\ last.replied /\ last.list_reply.ok
GotResult == last.op = "execute_action" /\ last.replied /\ last.call_reply.ok
CallToolRaised == last.op = "execute_action" /\ last.replied /\ ~last.call_reply.ok
Catalog == last.list_reply.tools
Unfiltered == last.actions.none \/ last.actions.items = <<>>
\* the schema a raw tool declares: its inputSchema, deserialized when it is a string
DeclaredSchema(tool) ==
  IF IsStr(tool.inputSchema)
  THEN (IF json_loads(tool.inputSchema).ok THEN json_loads(tool.inputSchema).v ELSE EmptyDict)
  ELSE tool.inputSchema
Undeserializable(tool) == IsStr(tool.inputSchema) /\ ~json_loads(tool.inputSchema).ok
DeclaredProperties(tool) ==
  IF IsDict(DeclaredSchema(tool)) THEN DictGet(DeclaredSchema(tool), "properties", EmptyDict)
  ELSE EmptyDict
DeclaredRequired(tool) ==
  IF IsDict(DeclaredSchema(tool)) THEN DictGet(DeclaredSchema(tool), "required", EmptyList)
  ELSE EmptyList
\* the k-th smallest member of a set of numbers
Kth(S, k) == CHOOSE i \in S : Cardinality({j \in S : j <= i}) = k

\* C1: every record of an unfiltered UnizoToolSet.get_tools has parameters
\* {type: "object", properties: the input schema's own `properties` mapping,
\* required: the input schema's `required` list}, both empty when absent.
C1_ParametersFromSchema ==
  (GotCatalog /\ cls = "UnizoToolSet" /\ Unfiltered /\ last.status = "returned") =>
    /\ Len(last.tools) = Len(Catalog)
    /\ \A i \in 1..Len(last.tools) :
         last.tools[i].parameters =
           [type |-> "object",
            properties |-> DeclaredProperties(Catalog[i]),
            required |-> DeclaredRequired(Catalog[i])]

\* C2: whatever the inputSchema of each tool of the catalog is, get_tools does
\* not raise and returns one record per raw tool in catalog order; a tool whose
\* schema string does not deserialize gets empty properties and required.
C2_NormalizeNeverRaises ==
  (GotCatalog /\ cls = "UnizoToolSet" /\ Unfiltered) =>
    /\ last.status = "returned"
    /\ Len(last.tools) = Len(Catalog)
    /\ \A i \in 1..Len(last.tools) :
         /\ last.tools[i].name = Catalog[i].name
         /\ Undeserializable(Catalog[i]) =>
              /\ last.tools[i].parameters.properties = EmptyDict
              /\ last.tools[i].parameters.required = EmptyList

\* C3: with a non-empty `actions` list get_tools returns exactly the catalog
\* records whose name is the value of a listed action, in catalog order,
\* whatever the order of the list and its duplicates; an action that matches
\* no record adds nothing and raises nothing (the call raises only when the
\* catalog itself cannot be normalised).
SelectedIndexes(records, actions) ==
  {i \in 1..Len(records) :
     \E k \in 1..Len(actions.items) : records[i].name = ActionValue(actions.items[k])}
C3_FilterByActions ==
  (GotCatalog /\ cls = "UnizoToolSet" /\ ~Unfiltered) =>
    /\ (last.status = "returned") = Normalize(Catalog).ok
    /\ last.status = "returned" =>
         /\ Len(last.tools) = Cardinality(SelectedIndexes(Normalize(Catalog).tools, last.actions))
         /\ \A k \in 1..Len(last.tools) :
              last.tools[k] =
                Normalize(Catalog).tools[Kth(SelectedIndexes(Normalize(Catalog).tools, last.actions), k)]
\* a two-tool catalog filtered by [HEALTH_CHECK, CREATE_TICKET] down to its second tool
C3_Witness ==
  /\ GotCatalog /\ cls = "UnizoToolSet" /\ last.status = "returned"
  /\ last.actions = Actions(<<"HEALTH_CHECK", "CREATE_TICKET">>)
  /\ Len(Catalog) = 2
  /\ Catalog[1].name = "list_tickets" /\ Catalog[2].name = "create_ticket"
  /\ Len(last.tools) = 1 /\ last.tools[1].name = "create_ticket"

\* C4: for a tool with properties {a, b, c} and required [a, b] the schema the
\* CrewAI and LangChain projectors generate has exactly the fields a, b, c, a
\* and b required, c optional with default None; in general the fields are the
\* declared properties and a field is required iff it is in the required list.
FieldNames(model) == [k \in 1..Len(model.fields) |-> model.fields[k].name]
C4_GeneratedFields ==
  (GotCatalog /\ cls \in {"UnizoCrewAIToolSet", "UnizoLangChainToolSet"}
     /\ Unfiltered /\ last.status = "returned") =>
    \A i \in 1..Len(last.tools) :
      /\ Catalog[i].inputSchema = SchemaABC =>
           last.tools[i].args_schema.fields =
             <<Field("a", "str", TRUE), Field("b", "int", TRUE), Field("c", "bool", FALSE)>>
      /\ {FieldNames(last.tools[i].args_schema)[k] :
            k \in 1..Len(last.tools[i].args_schema.fields)}
           = DictKeys(DeclaredProperties(Catalog[i]))
      /\ \A k \in 1..Len(last.tools[i].args_schema.fields) :
           FieldIsRequired(last.tools[i].args_schema.fields[k])
             = ListHasStr(DeclaredRequired(Catalog[i]), last.tools[i].args_schema.fields[k].name)

\* C5: with no structured content (absent or empty) execute_action returns the
\* values deserialized from the text of the content items that have one, in
\* content order: the single value itself when there is exactly one, the list
\* otherwise.
NoStructuredContent(result) ==
  ~result.hasStructured \/ result.structuredContent \in {PyNone, EmptyDict, EmptyList}
TextItems(content) == SelectSeq(content, LAMBDA c : c.hasText)
Deserialized(content) ==
  [k \in 1..Len(TextItems(content)) |-> json_loads(TextItems(content)[k].text).v]
AllDeserialize(content) ==
  \A k \in 1..Len(TextItems(content)) : json_loads(TextItems(content)[k].text).ok
C5_TextPayloadsUnwrapped ==
  (GotResult /\ NoStructuredContent(last.call_reply.result)
     /\ AllDeserialize(last.call_reply.result.content)) =>
    /\ last.status = "returned"
    /\ last.result =
         IF Len(Deserialized(last.call_reply.result.content)) = 1
         THEN Deserialized(last.call_reply.result.content)[1]
         ELSE PyList(Deserialized(last.call_reply.result.content))
\* an image and one text holding "[1]": the image is skipped, the list [1] is the single value
C5_Witness ==
  /\ GotResult /\ last.status = "returned"
  /\ ~last.call_reply.result.hasStructured
  /\ last.call_reply.result.content = <<ImageContent, TextContent(ListText)>>
  /\ last.result = PyList(<<PyInt(1)>>)

\* C6: a non-empty structuredContent is returned exactly as it is, whatever
\* its shape (a mapping, a list of any length) and whatever content holds.
C6_StructuredContentAsIs ==
  (GotResult /\ last.call_reply.result.hasStructured
     /\ last.call_reply.result.structuredContent \notin {PyNone, EmptyDict, EmptyList}) =>
    /\ last.status = "returned"
    /\ last.result = last.call_reply.result.structuredContent

\* C7: when session.call_tool raises an exception with message m,
\* execute_action raises ToolExecutionError("Failed to execute action: m"),
\* never the original exception type.
C7_CallToolErrorWrapped ==
  CallToolRaised =>
    /\ last.status = "raised"
    /\ last.exc = Exc("ToolExecutionError", "Failed to execute action: " \o last.call_reply.exc.msg)
    /\ last.exc.type # last.call_reply.exc.type
C7_Witness ==
  /\ CallToolRaised
  /\ last.call_reply.exc = Exc("RuntimeError", "connection lost")
  /\ last.exc = Exc("ToolExecutionError", "Failed to execute action: connection lost")

\* C8: every exception that escapes UnizoToolSet.get_tools or execute_action is
\* a ToolExecutionError, whichever step failed (connecting on first use,
\* listing, normalising, invoking, deserializing).
C8_OnlyToolExecutionError ==
  (last.status = "raised" /\ (last.op = "execute_action" \/ cls = "UnizoToolSet")) =>
    last.exc.type = "ToolExecutionError"

\* C9: over any interleaving of get_tools and execute_action calls on one
\* instance connect() runs exactly once.
C9_ConnectOnce == connectCalls <= 1

InvokedTool == fetched.tools[inv.k]
\* the parameters are valid for the invoked tool's own generated schema
ValidForOwnSchema(params) == Validate(InvokedTool.args_schema, params) = ""
\* the execute_action call the last invocation made has ended, as `last` tells
DispatchEnded == inv.dispatched = 1 /\ inv.status # "pending" /\ last.op = "execute_action"

\* C11: invoking a callable returned by the CrewAI or the LangChain get_tools
\* with parameters p that are valid for its schema (and hold no `properties`
\* entry) calls execute_action exactly once, with the Action whose value is
\* the callable's own name and with p as the parameter mapping, whatever the
\* size of the filtered catalog.
C11_DispatchOwnAction ==
  (inv.via \in {"tool_func", "_async_run"}
     /\ ~DictHas(inv.params, "properties") /\ ValidForOwnSchema(inv.params)) =>
    /\ inv.dispatched = 1
    /\ inv.action \in ActionNames
    /\ ActionValue(inv.action) = inv.name
    /\ inv.actual = inv.params

\* C12: UnizoOpenAIToolSet.get_tools returns one element per filtered catalog
\* record, in catalog order; each element has exactly the keys `type` and
\* `function`, type is "function", and function holds the record's name, its
\* description and, as parameters, the record's normalized schema of type
\* "object".
FilteredRecords == FilterTools(Normalize(Catalog).tools, last.actions)
C12_OpenAIDescriptors ==
  (GotCatalog /\ cls = "UnizoOpenAIToolSet" /\ last.status = "returned") =>
    /\ Len(last.tools) = Len(FilteredRecords)
    /\ \A i \in 1..Len(last.tools) :
         /\ DOMAIN last.tools[i] = {"type", "function"}
         /\ last.tools[i].type = "function"
         /\ DOMAIN last.tools[i].function = {"name", "description", "parameters"}
         /\ last.tools[i].function.name = FilteredRecords[i].name
         /\ last.tools[i].function.description = FilteredRecords[i].description
         /\ last.tools[i].function.parameters = FilteredRecords[i].parameters
         /\ last.tools[i].function.parameters.type = "object"
\* a two-tool catalog filtered by [HEALTH_CHECK, CREATE_TICKET] down to one descriptor
C12_Witness ==
  /\ GotCatalog /\ cls = "UnizoOpenAIToolSet" /\ last.status = "returned"
  /\ last.actions = Actions(<<"HEALTH_CHECK", "CREATE_TICKET">>)
  /\ Len(Catalog) = 2 /\ Catalog[1].name = "list_tickets"
  /\ Len(last.tools) = 1
  /\ last.tools[1].function.name = "create_ticket"

\* C13: _run and _async_run of a UnizoCrewAITool never raise: when 30 seconds
\* pass before execute_action completes they return {"error": "Tool <name>
\* timed out after 30 seconds"}; when execute_action raises e they return
\* {"error": "Failed to execute <name>: <e>"}; when it returns they return
\* its result; and a _run that never got to execute_action returns an error
\* object naming the tool.
C13_ToolsNeverRaise ==
  (inv.via \in {"_async_run", "_run"}) =>
    /\ inv.status # "raised"
    /\ (DispatchEnded /\ last.status = "cancelled") =>
         inv.result =
           PyDict(<<KV("error", PyStr("Tool " \o inv.name \o " timed out after 30 seconds"))>>)
    /\ (DispatchEnded /\ last.status = "raised") =>
         inv.result =
           PyDict(<<KV("error", PyStr("Failed to execute " \o inv.name \o ": " \o last.exc.msg))>>)
    /\ (DispatchEnded /\ last.status = "returned") => inv.result = last.result
    /\ (inv.status = "returned" /\ inv.dispatched = 0) =>
         inv.result =
           PyDict(<<KV("error", PyStr("Failed to execute " \o inv.name
                                        \o ": This event loop is already running"))>>)
\* call_tool raised inside the _async_run of create_ticket
C13_Witness ==
  /\ inv.via = "_async_run" /\ inv.name = "create_ticket" /\ DispatchEnded
  /\ last.status = "raised"
  /\ last.exc = Exc("ToolExecutionError", "Failed to execute action: connection lost")
  /\ inv.status = "returned"
  /\ inv.result =
       PyDict(<<KV("error", PyStr("Failed to execute create_ticket: Failed to execute action: connection lost"))>>)

\* C14: the LangChain callable validates the actual parameters against its
\* own tool's generated schema before dispatch: when that validation fails
\* ToolExecutionError is raised and nothing is dispatched (call_tool is not
\* invoked for the call); a dispatch happens only after it succeeded.
OwnValidation ==
  IF ActualParams(inv.params).ok
  THEN Validate(InvokedTool.args_schema, ActualParams(inv.params).v)
  ELSE "not reached"
C14_ValidatedBeforeDispatch ==
  (inv.via = "tool_func") =>
    /\ OwnValidation \in {"TypeError", "ValidationError"} =>
         /\ inv.status = "raised"
         /\ inv.exc.type = "ToolExecutionError"
         /\ inv.dispatched = 0
    /\ inv.dispatched >= 1 => OwnValidation = ""

\* C15: when the keyword arguments of the LangChain callable hold a
\* `properties` entry, its deserialized value is the parameter mapping that
\* is validated and dispatched; when it cannot be deserialized, whatever its
\* type or content, or does not validate, ToolExecutionError is raised: no
\* other exception type escapes the callable before dispatch.
PropertiesEntry == DictGet(inv.params, "properties", PyNone)
C15_PropertiesEntry ==
  (inv.via = "tool_func" /\ DictHas(inv.params, "properties")) =>
    /\ inv.dispatched = 1 =>
         /\ IsStr(PropertiesEntry)
         /\ json_loads(PropertiesEntry).ok
         /\ inv.actual = json_loads(PropertiesEntry).v
    /\ inv.dispatched = 0 =>
         /\ inv.status = "raised"
         /\ inv.exc.type = "ToolExecutionError"

C17_CleanupIdempotent == \A c \in Contexts : exits[c] <= 1

\* C18: _run of a UnizoCrewAITool returns what awaiting _async_run with the
\* same parameters returns, with no event loop running and with one running:
\* in both cases execute_action is dispatched once and its outcome decides
\* the value.
C18_RunEqualsAsyncRun ==
  (inv.via = "_run" /\ inv.status = "returned") =>
    /\ inv.dispatched = 1
    /\ last.op = "execute_action"
    /\ inv.result =
         IF last.status = "cancelled" THEN TimedOut(inv.name)
         ELSE IF last.status = "returned" THEN last.result
         ELSE FailedToExecute(inv.name, last.exc)

\* C19: in every record get_tools returns, every name of parameters.required
\* is a key of parameters.properties.
C19_RequiredAreProperties ==
  (GotCatalog /\ cls = "UnizoToolSet" /\ last.status = "returned") =>
    \A i \in 1..Len(last.tools) :
      \A k \in 1..Len(last.tools[i].parameters.required.items) :
        DictHas(last.tools[i].parameters.properties,
                last.tools[i].parameters.required.items[k].s)

\* C20: in the schema the CrewAI and LangChain projectors generate for a
\* tool, each declared property is a field whose type is int when the
\* property's schema declares "integer", bool when it declares "boolean",
\* and str in every other case.
DeclaredType(prop_schema) ==
  IF IsDict(prop_schema) /\ DictGet(prop_schema, "type", PyNone) = PyStr("integer") THEN "int"
  ELSE IF IsDict(prop_schema) /\ DictGet(prop_schema, "type", PyNone) = PyStr("boolean") THEN "bool"
  ELSE "str"
C20_InferredTypes ==
  (GotCatalog /\ cls \in {"UnizoCrewAIToolSet", "UnizoLangChainToolSet"}
     /\ Unfiltered /\ last.status = "returned") =>
    \A i \in 1..Len(last.tools) :
      \A n \in DictKeys(DeclaredProperties(Catalog[i])) :
        \E k \in 1..Len(last.tools[i].args_schema.fields) :
          /\ last.tools[i].args_schema.fields[k].name = n
          /\ last.tools[i].args_schema.fields[k].type
               = DeclaredType(DictGet(DeclaredProperties(Catalog[i]), n, PyNone))

\* C21: once the instance has a session no call invokes connect() again and
\* nothing replaces the session handle: a call that fails because the
\* connection dropped leaves it as it is, and every later call goes through it.
C21_NoReconnect ==
  [][session # 0 => (session' = session /\ connectCalls' = connectCalls)]_vars
\* get_tools failed on a dropped connection; the next get_tools is awaiting
\* list_tools on the same session, after one connect() in all
C21_Witness ==
  /\ fetched.status = "raised"
  /\ fetched.exc = Exc("ToolExecutionError", "Failed to fetch tools: connection lost")
  /\ pc[1] = "body" /\ op[1] = "get_tools"
  /\ session = 1 /\ connectCalls = 1

\* C22: when cleanup() has ended, returning or raising, every context a
\* connect() of the instance entered has been exited, those of a connect()
\* that failed part-way included.
C22_CleanupReleasesAll ==
  (last.op = "cleanup" /\ last.status \in {"returned", "raised"}) => entered = {}

\* C23: session is set only by a connect() that completed: when connect()
\* has raised, at whatever step, session is still None.
C23_SessionOnlyAfterConnect ==
  (last.stage = "connect" /\ last.status = "raised") => session = 0

\* C24: UnizoToolSet.get_tools with an empty `actions` list does what it does
\* with `actions` omitted: it returns every record of the catalog, in catalog
\* order (and raises exactly when the catalog cannot be normalised).
C24_EmptyActionsIsNoFilter ==
  (GotCatalog /\ cls = "UnizoToolSet" /\ last.actions = Actions(<<>>)) =>
    /\ (last.status = "returned") = Normalize(Catalog).ok
    /\ last.status = "returned" =>
         /\ Len(last.tools) = Len(Catalog)
         /\ \A i \in 1..Len(last.tools) :
              /\ last.tools[i].name = Catalog[i].name
              /\ last.tools[i] = Normalize(Catalog).tools[i]
\* a two-tool catalog and actions=[]: both records come back
C24_Witness ==
  /\ GotCatalog /\ cls = "UnizoToolSet" /\ last.status = "returned"
  /\ last.actions = Actions(<<>>)
  /\ Len(Catalog) = 2
  /\ Len(last.tools) = 2
  /\ last.tools[1].name = "list_tickets" /\ last.tools[2].name = "create_ticket"

\* C25: UnizoCrewAIToolSet.get_tools resolves each record's Action while it
\* builds the list: when a record's upper-cased name is no Action member
\* (only possible with `actions` omitted or empty) it raises KeyError, not
\* ToolExecutionError, and returns no tool; with a non-empty `actions` list
\* every surviving record resolves to a listed action whose value is its
\* name, every Action's member name being its value upper-cased.
C25_CrewAIResolvesActions ==
  /\ \A m \in 1..Len(Action) : upper(Action[m].value) = Action[m].name
  /\ (GotCatalog /\ cls = "UnizoCrewAIToolSet" /\ Normalize(Catalog).ok) =>
       /\ (\E i \in 1..Len(FilteredRecords) : upper(FilteredRecords[i].name) \notin ActionNames) =>
            /\ Unfiltered
            /\ last.status = "raised"
            /\ last.exc.type = "KeyError"
            /\ last.tools = <<>>
       /\ ~Unfiltered =>
            /\ last.status = "returned"
            /\ Len(last.tools) = Len(FilteredRecords)
            /\ \A i \in 1..Len(last.tools) :
                 /\ last.tools[i].name = FilteredRecords[i].name
                 /\ \E k \in 1..Len(last.actions.items) :
                      last.tools[i].action = last.actions.items[k]
                 /\ ActionValue(last.tools[i].action) = last.tools[i].name
\* create_ticket resolves, string_schema_tool does not: the whole call raises KeyError
C25_Witness ==
  /\ GotCatalog /\ cls = "UnizoCrewAIToolSet"
  /\ Len(Catalog) = 2
  /\ Catalog[1].name = "create_ticket" /\ Catalog[1].inputSchema = SchemaABC
  /\ Catalog[2].name = "string_schema_tool"
  /\ last.status = "raised"
  /\ last.exc = Exc("KeyError", "STRING_SCHEMA_TOOL")
====
